---- MODULE Spec2Model ----
(***************************************************************************)
(* Model of the SB29-guard-chrome background service worker               *)
(* (src/extension/background.js): the cached DPA list, its 24h staleness   *)
(* policy, the credential slot and the 401-triggered re-authentication.    *)
(*                                                                         *)
(* Every `await` of the source is a suspension point: an action of this    *)
(* module is the code that runs between two suspension points of one       *)
(* handler run, so runs interleave exactly where the event loop lets them. *)
(* chrome.storage.local is taken to be reliable (get/set never reject) and *)
(* the code to run inside the extension (runInExtensionContext takes its   *)
(* callback branch, where all listeners are registered).                   *)
(***************************************************************************)
EXTENDS Integers, Sequences, FiniteSets, TLC

\* ------------------------------------------------------------------ bounds
\* Handler runs in one behaviour; all of them may be suspended at once.
MaxCalls == 2
\* Handler runs in one behaviour of a browser with tabs, which starts from
\* what an earlier session has stored.
MaxNavs == 1
\* Entries of a list given to the resolver.
MaxLen == 2

\* --------------------------------------------------------------- constants
\* background.js:15
CACHE_DURATION_MINUTES == 60 * 24
\* background.js:245: CACHE_DURATION_MINUTES * 60 * 1000, in milliseconds
CACHE_DURATION_MS == CACHE_DURATION_MINUTES * 60 * 1000
\* The absent value of a slot or local: null / undefined, which every test of
\* the source treats by truthiness (!supabase_token, result.dpaList && ...).
None == 0

Runs == 1..MaxCalls
\* The endpoint and the identity provider are free in what they answer, so
\* every answer gets a name of its own: the list in the 2xx answer to run i,
\* and the access token in the callback of run i's silent or interactive
\* flow. (Answers that happen to coincide only add equalities.) A list
\* payload is a JSON array (spec: remote wire format), hence truthy.
ListOf(i) == i
TokenOf(i, interactive) == IF interactive THEN 2 * i ELSE 2 * i - 1
TickMs == CACHE_DURATION_MS \div 2
\* Date.now() of the first state: a positive epoch time.
StartMs == TickMs
\* The time that may pass between one trigger and the next: none, half a
\* cache duration, a whole one.
Elapsed == {0, TickMs, 2 * TickMs}

\* Outcomes of chrome.identity.launchWebAuthFlow (background.js:50-78) that
\* make authenticate return null: no response URL, a rejection (window
\* closed, malformed URL), a callback URL without access_token.
FlowFailures == {"cancelled", "threw", "notoken"}
\* Outcomes of fetch + response.json() (background.js:206-227) that make
\* fetchDpaData return null at once: a non-2xx status other than 401, a
\* transport error, a 2xx whose body does not parse.
FetchFailures == {"500", "neterr", "badjson"}

\* background.js:4
USER_AGENT == "SB29-guard-chrome"
\* background.js:10-12: the placeholders the build replaces.
API_URL == "__API_URI_PLACEHOLDER__"
API_KEY == "__API_KEY_PLACEHOLDER__"
API_HOST == "__API_HOST_PLACEHOLDER__"
\* background.js:42: chrome.identity.getRedirectURL(), fixed per installation.
RedirectURL == "https://<extension-id>.chromiumapp.org/"

\* null / undefined where the code expects a string, and where it expects an
\* object. (No URL, list or message of the model contains these as data.)
Null == "<null>"
Undefined == "<undefined>"
NullObject == [null |-> TRUE]

\* A URL string, by what `new URL` makes of it: the scheme, the hostname as
\* its dot-separated labels, the pathname as its segments (the pathname is
\* "/" followed by the segments joined with "/", so "/" has the one segment
\* "") and the id parameter of the query (Null without one). A string with
\* no scheme, or with no host, does not parse.
Url(protocol, hostname, pathname, id) ==
    [typeof |-> "string", protocol |-> protocol, hostname |-> hostname,
     pathname |-> pathname, id |-> id]
\* Values that are no URL string: null, the empty string, a number.
NullUrl == [Url("", <<>>, <<>>, Null) EXCEPT !.typeof = "object"]
EmptyUrl == Url("", <<>>, <<>>, Null)
NumberUrl == [Url("", <<>>, <<>>, Null) EXCEPT !.typeof = "number"]

\* Hostnames.
Example == <<"example", "com">>
WwwExample == <<"www", "example", "com">>
Google == <<"google", "com">>
WwwGoogle == <<"www", "google", "com">>
Localhost == <<"localhost">>
Apple == <<"apps", "apple", "com">>
ChromeStore == <<"chromewebstore", "google", "com">>
Play == <<"play", "google", "com">>
Workspace == <<"workspace", "google", "com">>

\* Pages.
ExampleHome == Url("https", Example, <<"">>, Null)
ExamplePage == Url("https", WwwExample, <<"x">>, Null)
GoogleHome == Url("https", WwwGoogle, <<"">>, Null)
LocalPage == Url("http", Localhost, <<"">>, Null)
NotAUrl == Url("", <<>>, <<"not a url">>, Null)
HttpNoHost == Url("http", <<>>, <<>>, Null)
ChromePage == Url("chrome", <<"extensions">>, <<"">>, Null)
PlayApp == Url("https", Play, <<"store", "apps", "details">>, "com.foo")
PlayAppNoId == Url("https", Play, <<"store", "apps", "details">>, Null)
PlayStore == Url("https", Play, <<"store">>, Null)
PlaySearch == Url("https", Play, <<"store", "search">>, Null)
AppleApp == Url("https", Apple, <<"us", "app", "foo", "id123">>, Null)
AppleAppNum == Url("https", Apple, <<"us", "app", "foo", "123">>, Null)
AppleHome == Url("https", Apple, <<"">>, Null)
ChromeApp == Url("https", ChromeStore, <<"detail", "foo", "com.foo">>, Null)
ChromeHome == Url("https", ChromeStore, <<"">>, Null)
WorkspaceApp == Url("https", Workspace, <<"marketplace", "app", "Foo", "123">>, Null)
WorkspaceAbc == Url("https", Workspace, <<"marketplace", "app", "Foo", "abc">>, Null)
\* An id parameter that is empty, a path that ends with a slash, and a URL
\* of a scheme that has no host (its hostname is the empty string).
PlayAppEmptyId == Url("https", Play, <<"store", "apps", "details">>, "")
AppleAppSlash == Url("https", Apple, <<"us", "app", "">>, Null)
FilePage == Url("file", <<"">>, <<"x">>, Null)
\* Storefront pages with "detail" in the second place of the path, and with
\* nothing after /marketplace/app.
ChromeCategory == Url("https", ChromeStore, <<"category", "detail", "x">>, Null)
WorkspaceApps == Url("https", Workspace, <<"marketplace", "app">>, Null)

\* The strings of the model that /^\d+$/ matches (background.js:134) and
\* those that start with "details" (background.js:123).
Numeric == {"123"}
DetailsPrefixed == {"details", "details-old"}

\* A list entry of the wire format; a status that is missing is Undefined.
Entry(link, tl, dpa) ==
    [resource_link |-> link, current_tl_status |-> tl, current_dpa_status |-> dpa]

\* The lists the endpoint answers with: a name each (ListOf), the one cached
\* by an earlier session included, and the entries behind the name.
Earlier == MaxCalls + 1
ListNames == 1..Earlier
ListA ==
    <<Entry(ExamplePage, "Approved", "Received"),
      Entry(PlayApp, "Rejected", "Received"),
      Entry(PlayStore, "Approved", "Not Required"),
      Entry(GoogleHome, "Approved", "Denied")>>
ListB ==
    <<Entry(NotAUrl, "Approved", "Received"),
      Entry(ExampleHome, "Rejected", "Denied"),
      Entry(ExamplePage, "Approved", "Received"),
      Entry(ChromeApp, "Not Required", "Received")>>
ListOld ==
    <<Entry(ExampleHome, "Approved", "Requested"),
      Entry(PlayApp, "Approved", "Received")>>
Published ==
    [n \in ListNames |->
        IF n = Earlier THEN ListOld ELSE IF n % 2 = 1 THEN ListA ELSE ListB]

\* The tabs of the browser.
Tabs == {1, 2}

VARIABLES
    clock,      \* Date.now() at the latest trigger
    storage,    \* chrome.storage.local: supabase_token, dpaList, lastFetch
    run,        \* the handler runs: not started, suspended or returned
    origin,     \* history: the run that wrote each cache slot
    lastFetched,\* history: payload of the latest successful GET, None before
    inflight,   \* the request each run has outstanding, None without one
    nav,        \* the handleTabUpdate frame around each run, if it has one
    icon,       \* chrome.action: the icon and the badge text of each tab
    query,      \* the getSiteInfoForUrl message being handled, and its replies
    published   \* the entries of each list the endpoint answers with

\* What the handlers of tab and popup events work on.
page == <<nav, icon, query, published>>

vars == <<clock, storage, run, origin, lastFetched, inflight, nav, icon, query,
          published>>

\* The locals of one run of getAndUpdateDpaList and of the fetchDpaData and
\* authenticate calls inside it; log is the history of what it did. A local
\* that the code does not read again is put back to None, and a run that has
\* returned keeps its return value and its history only.
Idle ==
    [pc |-> "idle", now |-> None, dpaList |-> None, lastFetch |-> None,
     supabase_token |-> None, accessToken |-> None, body |-> None,
     ret |-> None, log |-> <<>>]

\* No handleTabUpdate frame: the run, if any, was not started by a tab event.
\* Otherwise the locals of handleTabUpdate, and the history of its updateIcon
\* calls in shown.
NoNav ==
    [pc |-> "none", tabId |-> None, url |-> NullUrl,
     tabDomainInfo |-> NullObject, siteInfo |-> NullObject, shown |-> <<>>]

\* No message yet. Otherwise the request, the locals of its handler and the
\* history of its sendResponse calls in replies.
NoQuery ==
    [pc |-> "none", url |-> NullUrl, domainInfo |-> NullObject, replies |-> <<>>]

\* The action icon of a tab before any updateIcon call.
DefaultIcon == [path |-> Null, badge |-> ""]

\* A fresh installation: nothing stored, nothing running.
Init ==
    /\ clock = StartMs
    /\ storage = [supabase_token |-> None, dpaList |-> None, lastFetch |-> None]
    /\ run = [i \in Runs |-> Idle]
    /\ origin = [dpaList |-> None, lastFetch |-> None]
    /\ lastFetched = None
    /\ inflight = [i \in Runs |-> NullObject]
    /\ nav = [i \in Runs |-> NoNav]
    /\ icon = [t \in Tabs |-> DefaultIcon]
    /\ query = NoQuery
    /\ published = Published

\* ----------------------------------------------------------------- helpers
Logged(r, e) == [r EXCEPT !.log = Append(@, e)]
Count(log, e) == Cardinality({k \in 1..Len(log) : log[k] = e})

\* Fault: the staleness test made inclusive (<= for <).
IsFreshInclusive(r) ==
    /\ r.dpaList # None
    /\ r.lastFetch # None
    /\ r.now - r.lastFetch <= CACHE_DURATION_MS

\* background.js:245
IsFresh(r) ==
    /\ r.dpaList # None
    /\ r.lastFetch # None
    /\ r.now - r.lastFetch < CACHE_DURATION_MS

\* A return of getAndUpdateDpaList: the locals go out of scope.
Return(r, list) == [Idle EXCEPT !.pc = "done", !.ret = list, !.log = r.log]

\* Fault: when fetchDpaData gives null the run never returns.
ReturnStaleNever(r) == [r EXCEPT !.pc = "hung"]

\* background.js:263-265: fetchDpaData gave null; result.dpaList || null
ReturnStale(r) == Return(r, r.dpaList)

\* background.js:199-206 and 215-216: build the headers and issue the GET.
IssueGet(r, pc) == [Logged(r, "get") EXCEPT !.pc = pc]

\* background.js:42-53: authenticate(interactive) up to its first await.
LaunchAuth(r, interactive) ==
    [Logged(r, IF interactive THEN "interactive" ELSE "silent")
        EXCEPT !.pc = IF interactive THEN "auth2" ELSE "auth1",
               !.supabase_token = None]

\* Fault: the GET tells the endpoint which hosts the tabs are on.
GetRequestWithReferer(supabase_token) ==
    [url |-> API_URL, method |-> "GET",
     headers |-> [apikey |-> API_KEY, UserAgent |-> USER_AGENT,
                  Authorization |-> <<"Bearer", supabase_token>>,
                  Referer |-> {nav[j].tabDomainInfo.hostname :
                                 j \in {k \in Runs : nav[k].pc = "await"}}]]

\* background.js:199-206 and 215-216: the GET for the list.
GetRequest(supabase_token) ==
    [url |-> API_URL, method |-> "GET",
     headers |-> [apikey |-> API_KEY, UserAgent |-> USER_AGENT,
                  Authorization |-> <<"Bearer", supabase_token>>]]

\* background.js:42-53: the flow chrome.identity is asked to launch.
AuthRequest(interactive) ==
    [url |-> [href |-> <<API_HOST, "/auth/v1/authorize">>,
              searchParams |-> [provider |-> "google",
                                redirect_to |-> RedirectURL]],
     interactive |-> interactive]

\* The request a run has outstanding while it is suspended on the endpoint or
\* on the identity provider.
RequestOf(r) ==
    CASE r.pc \in {"get1", "get2"} -> GetRequest(r.supabase_token)
      [] r.pc = "auth1" -> AuthRequest(FALSE)
      [] r.pc = "auth2" -> AuthRequest(TRUE)
      [] OTHER -> NullObject

\* Run i takes a step: what it has outstanding afterwards.
Outbound(i) == inflight' = [inflight EXCEPT ![i] = RequestOf(run'[i])]

\* String.prototype.split("/") of a pathname: the empty string before the
\* leading slash, then the segments.
split(pathname) == <<"">> \o pathname

\* background.js:107: url.pathname.includes('/app/'): a segment "app" with a
\* slash after it.
IncludesApp(pathname) ==
    \E k \in 1..(Len(pathname) - 1) : pathname[k] = "app"

\* background.js:123: url.pathname.startsWith('/store/apps/details')
StartsWithDetails(pathname) ==
    /\ Len(pathname) >= 3
    /\ pathname[1] = "store"
    /\ pathname[2] = "apps"
    /\ pathname[3] \in DetailsPrefixed

\* Fault: the last segment of a marketplace path is taken whatever it is.
AppStoreAnyCandidate(url) ==
    LET parts == split(url.pathname)
        last == parts[Len(parts)]
        store(name, appID) ==
            [isAppStore |-> TRUE, appStoreName |-> name, appID |-> appID]
    IN  CASE url.hostname = Apple ->
               store("Apple App Store",
                     IF IncludesApp(url.pathname) THEN last ELSE Null)
          [] url.hostname = ChromeStore ->
               store("Chrome Web Store",
                     IF Len(parts) > 1 /\ parts[2] = "detail"
                     THEN last ELSE Null)
          [] url.hostname = Play ->
               store("Google Play Store",
                     IF StartsWithDetails(url.pathname) THEN url.id ELSE Null)
          [] url.hostname = Workspace ->
               store("Google Workspace Marketplace",
                     IF /\ Len(parts) > 2
                        /\ parts[2] = "marketplace"
                        /\ parts[3] = "app"
                     THEN last ELSE Null)
          [] OTHER ->
               [isAppStore |-> FALSE, appStoreName |-> Null, appID |-> Null]

\* background.js:98-139: the switch on the hostname: whether it is one of the
\* storefronts, which, and the application identifier it finds (Null if none).
AppStore(url) ==
    LET parts == split(url.pathname)
        last == parts[Len(parts)]
        store(name, appID) ==
            [isAppStore |-> TRUE, appStoreName |-> name, appID |-> appID]
    IN  CASE url.hostname = Apple ->
               store("Apple App Store",
                     IF IncludesApp(url.pathname) THEN last ELSE Null)
          [] url.hostname = ChromeStore ->
               store("Chrome Web Store",
                     IF Len(parts) > 1 /\ parts[2] = "detail"
                     THEN last ELSE Null)
          [] url.hostname = Play ->
               store("Google Play Store",
                     IF StartsWithDetails(url.pathname) THEN url.id ELSE Null)
          [] url.hostname = Workspace ->
               store("Google Workspace Marketplace",
                     IF /\ Len(parts) > 2
                        /\ parts[2] = "marketplace"
                        /\ parts[3] = "app"
                        /\ last \in Numeric
                     THEN last ELSE Null)
          [] OTHER ->
               [isAppStore |-> FALSE, appStoreName |-> Null, appID |-> Null]

\* Fault: the full hostname is the key of every page.
HostnameForMatchingFull(hostnameParts, isAppStore) == hostnameParts

\* background.js:145-157: the full hostname of a storefront, the last two
\* labels of any other hostname, a single label as it is.
HostnameForMatching(hostnameParts, isAppStore) ==
    IF isAppStore
    THEN hostnameParts
    ELSE IF Len(hostnameParts) > 1
         THEN SubSeq(hostnameParts, Len(hostnameParts) - 1, Len(hostnameParts))
         ELSE hostnameParts

\* Fault: isInstalled is the truthiness of the identifier (line 162).
getDomainInfoTruthy(urlString) ==
    IF \/ urlString.typeof # "string"
       \/ urlString = EmptyUrl
       \/ urlString.protocol = ""
       \/ urlString.hostname = <<>>
    THEN NullObject
    ELSE LET url == urlString
             store == AppStore(url)
         IN  [fullHostname |-> url.hostname,
              hostname |-> HostnameForMatching(url.hostname, store.isAppStore),
              isInstalled |-> store.appID \notin {Null, ""},
              appID |-> store.appID,
              isAppStore |-> store.isAppStore,
              appStoreName |-> store.appStoreName]

\* background.js:90-171: null for what is no string, is empty or does not
\* parse as a URL.
getDomainInfo(urlString) ==
    IF \/ urlString.typeof # "string"
       \/ urlString = EmptyUrl
       \/ urlString.protocol = ""
       \/ urlString.hostname = <<>>
    THEN NullObject
    ELSE LET url == urlString
             store == AppStore(url)
         IN  [fullHostname |-> url.hostname,
              hostname |-> HostnameForMatching(url.hostname, store.isAppStore),
              isInstalled |-> store.appID # Null,
              appID |-> store.appID,
              isAppStore |-> store.isAppStore,
              appStoreName |-> store.appStoreName]

\* Array.prototype.findLast: the last element that passes the test; test[k]
\* is what the callback returns for the k-th element.
findLast(list, test) ==
    LET hits == {k \in DOMAIN list : test[k]}
    IN  IF hits = {} THEN NullObject
        ELSE list[CHOOSE k \in hits : \A j \in hits : j <= k]

\* Array.prototype.find: the first element that passes the test, undefined
\* if none does.
find(list, test) ==
    LET hits == {k \in DOMAIN list : test[k]}
    IN  IF hits = {} THEN NullObject
        ELSE list[CHOOSE k \in hits : \A j \in hits : k <= j]

\* Fault: every page is matched by its hostname, an application page too.
siteInfoOfTabByHostname(tabDomainInfo, dpaList) ==
    IF ~tabDomainInfo.isAppStore \/ tabDomainInfo.isInstalled
    THEN find(dpaList, [k \in DOMAIN dpaList |->
                LET siteDomainInfo == getDomainInfo(dpaList[k].resource_link)
                IN  /\ siteDomainInfo # NullObject
                    /\ ~siteDomainInfo.isInstalled
                    /\ siteDomainInfo.hostname = tabDomainInfo.hostname])
    ELSE NullObject

\* Fault: the hostname search is not kept from the other storefront pages.
siteInfoOfTabNoStoreTest(tabDomainInfo, dpaList) ==
    IF tabDomainInfo.isInstalled
    THEN find(dpaList, [k \in DOMAIN dpaList |->
                LET siteDomainInfo == getDomainInfo(dpaList[k].resource_link)
                IN  /\ siteDomainInfo # NullObject
                    /\ siteDomainInfo.isInstalled
                    /\ siteDomainInfo.appID = tabDomainInfo.appID])
    ELSE find(dpaList, [k \in DOMAIN dpaList |->
                LET siteDomainInfo == getDomainInfo(dpaList[k].resource_link)
                IN  /\ siteDomainInfo # NullObject
                    /\ ~siteDomainInfo.isInstalled
                    /\ siteDomainInfo.hostname = tabDomainInfo.hostname])

\* Fault: the copy of the search in handleTabUpdate compares full hostnames.
siteInfoOfTabFullHostname(tabDomainInfo, dpaList) ==
    IF tabDomainInfo.isInstalled
    THEN find(dpaList, [k \in DOMAIN dpaList |->
                LET siteDomainInfo == getDomainInfo(dpaList[k].resource_link)
                IN  /\ siteDomainInfo # NullObject
                    /\ siteDomainInfo.isInstalled
                    /\ siteDomainInfo.appID = tabDomainInfo.appID])
    ELSE IF ~tabDomainInfo.isAppStore
         THEN find(dpaList, [k \in DOMAIN dpaList |->
                     LET siteDomainInfo == getDomainInfo(dpaList[k].resource_link)
                     IN  /\ siteDomainInfo # NullObject
                         /\ ~siteDomainInfo.isInstalled
                         /\ siteDomainInfo.fullHostname
                              = tabDomainInfo.fullHostname])
         ELSE NullObject

\* background.js:361-375: the entry handleTabUpdate finds for the tab: for an
\* application page the first entry whose link is the page of an application
\* with the same identifier, for any other page outside the storefronts the
\* first entry whose link is no application page and has the same matching
\* hostname, for any other storefront page none.
siteInfoOfTab(tabDomainInfo, dpaList) ==
    IF tabDomainInfo.isInstalled
    THEN find(dpaList, [k \in DOMAIN dpaList |->
                LET siteDomainInfo == getDomainInfo(dpaList[k].resource_link)
                IN  /\ siteDomainInfo # NullObject
                    /\ siteDomainInfo.isInstalled
                    /\ siteDomainInfo.appID = tabDomainInfo.appID])
    ELSE IF ~tabDomainInfo.isAppStore
         THEN find(dpaList, [k \in DOMAIN dpaList |->
                     LET siteDomainInfo == getDomainInfo(dpaList[k].resource_link)
                     IN  /\ siteDomainInfo # NullObject
                         /\ ~siteDomainInfo.isInstalled
                         /\ siteDomainInfo.hostname = tabDomainInfo.hostname])
         ELSE NullObject

\* Fault: the message handler takes the last entry that matches.
siteInfoOfQueryLast(domainInfo, dpaList) ==
    IF domainInfo.isInstalled
    THEN findLast(dpaList, [k \in DOMAIN dpaList |->
                    LET siteDomainInfo == getDomainInfo(dpaList[k].resource_link)
                    IN  /\ siteDomainInfo # NullObject
                        /\ siteDomainInfo.isInstalled
                        /\ siteDomainInfo.appID = domainInfo.appID])
    ELSE IF ~domainInfo.isAppStore
         THEN findLast(dpaList, [k \in DOMAIN dpaList |->
                         LET siteDomainInfo == getDomainInfo(dpaList[k].resource_link)
                         IN  /\ siteDomainInfo # NullObject
                             /\ ~siteDomainInfo.isInstalled
                             /\ siteDomainInfo.hostname = domainInfo.hostname])
         ELSE NullObject

\* background.js:433-445: the same search in the message handler.
siteInfoOfQuery(domainInfo, dpaList) ==
    IF domainInfo.isInstalled
    THEN find(dpaList, [k \in DOMAIN dpaList |->
                LET siteDomainInfo == getDomainInfo(dpaList[k].resource_link)
                IN  /\ siteDomainInfo # NullObject
                    /\ siteDomainInfo.isInstalled
                    /\ siteDomainInfo.appID = domainInfo.appID])
    ELSE IF ~domainInfo.isAppStore
         THEN find(dpaList, [k \in DOMAIN dpaList |->
                     LET siteDomainInfo == getDomainInfo(dpaList[k].resource_link)
                     IN  /\ siteDomainInfo # NullObject
                         /\ ~siteDomainInfo.isInstalled
                         /\ siteDomainInfo.hostname = domainInfo.hostname])
         ELSE NullObject

\* Fault: the approval is tested before the denial.
determineOverallStatusApprovalFirst(siteInfo) ==
    IF siteInfo = NullObject THEN "unlisted"
    ELSE LET current_tl_status == siteInfo.current_tl_status
             current_dpa_status == siteInfo.current_dpa_status
             isApproved == current_tl_status \in {"Approved", "Not Required"}
             isReceived == current_dpa_status \in {"Received", "Not Required"}
         IN  IF isApproved /\ isReceived THEN "approved"
             ELSE IF current_dpa_status = "Denied" THEN "staff_only"
             ELSE IF current_tl_status = "Rejected" THEN "denied"
             ELSE "pending"

\* background.js:278-302
determineOverallStatus(siteInfo) ==
    IF siteInfo = NullObject THEN "unlisted"
    ELSE LET current_tl_status == siteInfo.current_tl_status
             current_dpa_status == siteInfo.current_dpa_status
             isApproved == current_tl_status \in {"Approved", "Not Required"}
             isReceived == current_dpa_status \in {"Received", "Not Required"}
         IN  IF current_tl_status = "Rejected" THEN "denied"
             ELSE IF current_dpa_status = "Denied" THEN "staff_only"
             ELSE IF isApproved /\ isReceived THEN "approved"
             ELSE "pending"

\* background.js:313-321
IconPath(status) ==
    CASE status = "approved" -> "images/icon-green-circle.png"
      [] status = "denied" -> "images/icon-red-x.png"
      [] status = "staff_only" -> "images/icon-yellow-triangle.png"
      [] status = "pending" -> "images/icon-orange-square.png"
      [] status = "unlisted" -> "images/icon-purple-diamond.png"
      [] OTHER -> "images/icon-neutral48.png"

\* background.js:326: the badge text of an application page (an arrow).
BadgeText == "installed"

\* background.js:311-332: the icons after updateIcon(status, tabId, isInstalled).
updateIcon(status, tabId, isInstalled) ==
    [icon EXCEPT ![tabId] =
        [path |-> IconPath(status),
         badge |-> IF isInstalled THEN BadgeText ELSE ""]]

\* An updateIcon call, as a frame's history keeps it.
Call(status, tabId, isInstalled) ==
    [status |-> status, tabId |-> tabId, isInstalled |-> isInstalled]

\* ----------------------------------------------------------------- actions
\* background.js:237-242: a trigger calls getAndUpdateDpaList, which takes the
\* time and suspends on the read of the two cache slots. The clock is read
\* nowhere else, so the time that passed since the previous trigger is an
\* input of this step.
getAndUpdateDpaList(i) ==
    /\ run[i].pc = "idle"
    /\ \A j \in Runs : j < i => run[j].pc # "idle"
    /\ \E d \in Elapsed : clock' = IF i = 1 THEN clock ELSE clock + d
    /\ run' = [run EXCEPT ![i] = [Idle EXCEPT !.pc = "read", !.now = clock']]
    /\ UNCHANGED <<storage, origin, lastFetched, inflight>>

\* background.js:394
onStartup(i) == getAndUpdateDpaList(i) /\ UNCHANGED page

\* background.js:395
onInstalled(i) == getAndUpdateDpaList(i) /\ UNCHANGED page

\* background.js:407-412
handleAlarm(i) ==
    \E name \in {"refreshDpaList", "other"} :
        IF name = "refreshDpaList"
        THEN getAndUpdateDpaList(i) /\ UNCHANGED page
        ELSE UNCHANGED vars

\* updateIcon called by the frame of run i, which returns.
Show(i, status, siteInfo) ==
    LET isInstalled == nav[i].tabDomainInfo.isInstalled
    IN  /\ nav' = [nav EXCEPT ![i] =
                     [@ EXCEPT !.pc = "done", !.siteInfo = siteInfo,
                               !.shown = Append(@, Call(status, nav[i].tabId,
                                                        isInstalled))]]
        /\ icon' = updateIcon(status, nav[i].tabId, isInstalled)

\* background.js:354-385: the rest of a step of run i. When the step makes
\* getAndUpdateDpaList return and handleTabUpdate awaits it, handleTabUpdate
\* goes on in the same turn of the event loop (only promise reactions lie
\* between the return and line 355, and no callback of the browser runs
\* before they have): the neutral icon without a list, otherwise the icon of
\* the entry found, or the one of an unlisted page.
handleTabUpdateResumes(i) ==
    /\ IF nav[i].pc = "await" /\ run'[i].pc = "done"
       THEN LET dpaList == run'[i].ret
            IN  IF dpaList = None
                THEN Show(i, "neutral", NullObject)
                ELSE LET siteInfo == siteInfoOfTab(nav[i].tabDomainInfo,
                                                   published[dpaList])
                     IN  IF siteInfo # NullObject
                         THEN Show(i, determineOverallStatus(siteInfo),
                                   siteInfo)
                         ELSE Show(i, "unlisted", siteInfo)
       ELSE UNCHANGED <<nav, icon>>
    /\ UNCHANGED <<query, published>>

\* background.js:239-251 and 182: the cache read resolves; a fresh cache is
\* returned, otherwise fetchDpaData starts and suspends on the token read.
ReadCache(i) ==
    /\ run[i].pc = "read"
    /\ LET r == [run[i] EXCEPT !.dpaList = storage.dpaList,
                               !.lastFetch = storage.lastFetch]
       IN  run' = [run EXCEPT ![i] =
                     IF IsFresh(r) THEN Return(r, r.dpaList)
                                   ELSE [r EXCEPT !.pc = "token",
                                                  !.lastFetch = None]]
    /\ UNCHANGED <<clock, storage, origin, lastFetched>>
    /\ Outbound(i) /\ handleTabUpdateResumes(i)

\* Fault: a silent authentication is attempted whatever the token slot holds.
ReadTokenAlwaysSilent(i) ==
    /\ run[i].pc = "token"
    /\ run' = [run EXCEPT ![i] = LaunchAuth(@, FALSE)]
    /\ UNCHANGED <<clock, storage, origin, lastFetched>>
    /\ Outbound(i) /\ handleTabUpdateResumes(i)

\* background.js:182-206: the token read resolves; without a token a silent
\* authentication starts, with one the GET is issued.
ReadToken(i) ==
    /\ run[i].pc = "token"
    /\ LET r == [run[i] EXCEPT !.supabase_token = storage.supabase_token]
       IN  run' = [run EXCEPT ![i] =
                     IF r.supabase_token = None THEN LaunchAuth(r, FALSE)
                                                ELSE IssueGet(r, "get1")]
    /\ UNCHANGED <<clock, storage, origin, lastFetched>>
    /\ Outbound(i) /\ handleTabUpdateResumes(i)

\* Fault: the check of line 194 is missing, so a failed silent authentication
\* goes on to the GET with no token.
AuthFlowUnchecked(i) ==
    /\ run[i].pc \in {"auth1", "auth2"}
    /\ \/ \E f \in FlowFailures :
            run' = [run EXCEPT ![i] =
                      IF @.pc = "auth1" THEN IssueGet(Logged(@, "null"), "get1")
                                        ELSE ReturnStale(Logged(@, "null"))]
       \/ run' = [run EXCEPT ![i] =
                    [@ EXCEPT !.accessToken = TokenOf(i, run[i].pc = "auth2"),
                              !.pc = IF @ = "auth1" THEN "store1" ELSE "store2"]]
    /\ UNCHANGED <<clock, storage, origin, lastFetched>>
    /\ Outbound(i) /\ handleTabUpdateResumes(i)

\* Fault: an interactive authentication that gives no token removes the
\* stored token, which the endpoint has rejected.
AuthFlowInvalidating(i) ==
    /\ run[i].pc \in {"auth1", "auth2"}
    /\ \/ /\ \E f \in FlowFailures :
                run' = [run EXCEPT ![i] = ReturnStale(Logged(@, "null"))]
          /\ storage' = IF run[i].pc = "auth2"
                        THEN [storage EXCEPT !.supabase_token = None]
                        ELSE storage
       \/ /\ run' = [run EXCEPT ![i] =
                       [@ EXCEPT !.accessToken = TokenOf(i, run[i].pc = "auth2"),
                                 !.pc = IF @ = "auth1" THEN "store1" ELSE "store2"]]
          /\ UNCHANGED storage
    /\ UNCHANGED <<clock, origin, lastFetched>>
    /\ Outbound(i) /\ handleTabUpdateResumes(i)

\* background.js:50-78 and 190-197, 211-223: launchWebAuthFlow resolves or
\* rejects. With a token in the callback authenticate suspends on storing it;
\* otherwise it returns null, and fetchDpaData returns null in turn (silent:
\* line 194; interactive: the 401 response is not ok, line 220).
AuthFlow(i) ==
    /\ run[i].pc \in {"auth1", "auth2"}
    /\ \/ \E f \in FlowFailures :
            run' = [run EXCEPT ![i] = ReturnStale(Logged(@, "null"))]
       \/ run' = [run EXCEPT ![i] =
                    [@ EXCEPT !.accessToken = TokenOf(i, run[i].pc = "auth2"),
                              !.pc = IF @ = "auth1" THEN "store1" ELSE "store2"]]
    /\ UNCHANGED <<clock, storage, origin, lastFetched>>
    /\ Outbound(i) /\ handleTabUpdateResumes(i)

\* chrome.storage.local.set(items): the named slots are replaced together.
StorageSet(s, items) ==
    [k \in DOMAIN s \cup DOMAIN items |->
        IF k \in DOMAIN items THEN items[k] ELSE s[k]]

\* The same call seen from outside: the slots it wrote now stem from run i.
OriginSet(o, items, i) ==
    [k \in DOMAIN o |-> IF k \in DOMAIN items THEN i ELSE o[k]]

\* Fault: the token is returned but not stored.
TokenItemsNone(r) == [k \in {} |-> None]

\* background.js:66: the items authenticate stores.
TokenItems(r) == [supabase_token |-> r.accessToken]

\* background.js:66-68 and 190-206, 211-216: the token is stored, authenticate
\* returns it and fetchDpaData issues the GET (the first one after a silent
\* authentication, the retry after an interactive one).
StoreToken(i) ==
    /\ run[i].pc \in {"store1", "store2"}
    /\ storage' = StorageSet(storage, TokenItems(run[i]))
    /\ LET r == run[i]
       IN  run' = [run EXCEPT ![i] =
                     IssueGet([Logged(r, "token")
                                 EXCEPT !.supabase_token = r.accessToken,
                                        !.accessToken = None],
                              IF r.pc = "store1" THEN "get1" ELSE "get2")]
    /\ UNCHANGED <<clock, origin, lastFetched>>
    /\ Outbound(i) /\ handleTabUpdateResumes(i)

\* Fault: every 401 starts an interactive authentication, the retry's too.
On401Again(r) == LaunchAuth(r, TRUE)

\* background.js:209-223: what follows a 401 answer: an interactive
\* authentication after the first GET, null after the retry.
On401(r) ==
    IF r.pc = "get1" THEN LaunchAuth(r, TRUE) ELSE ReturnStale(r)

\* Fault: a failed fetch re-stamps the cache (a back-off that hides staleness).
ResponseRestamping(i) ==
    /\ run[i].pc \in {"get1", "get2"}
    /\ \/ /\ run' = [run EXCEPT ![i] =
                       [Logged(@, "ok") EXCEPT !.body = ListOf(i), !.pc = "write",
                                               !.supabase_token = None]]
          /\ lastFetched' = ListOf(i)
          /\ UNCHANGED storage
       \/ /\ run' = [run EXCEPT ![i] = On401(Logged(@, "401"))]
          /\ UNCHANGED <<lastFetched, storage>>
       \/ \E s \in FetchFailures :
            /\ run' = [run EXCEPT ![i] = ReturnStale(Logged(@, "failed"))]
            /\ storage' = [storage EXCEPT !.lastFetch = run[i].now]
            /\ UNCHANGED lastFetched
    /\ UNCHANGED <<clock, origin>>
    /\ Outbound(i) /\ handleTabUpdateResumes(i)

\* background.js:206-227 and 251-258: the GET is answered. A parsed 2xx body
\* is returned by fetchDpaData and the cache write is issued; a 401 is
\* handled by On401; anything else makes fetchDpaData return null.
Response(i) ==
    /\ run[i].pc \in {"get1", "get2"}
    /\ \/ /\ run' = [run EXCEPT ![i] =
                       [Logged(@, "ok") EXCEPT !.body = ListOf(i), !.pc = "write",
                                               !.supabase_token = None]]
          /\ lastFetched' = ListOf(i)
       \/ /\ run' = [run EXCEPT ![i] = On401(Logged(@, "401"))]
          /\ UNCHANGED lastFetched
       \/ \E s \in FetchFailures :
            /\ run' = [run EXCEPT ![i] = ReturnStale(Logged(@, "failed"))]
            /\ UNCHANGED lastFetched
    /\ UNCHANGED <<clock, storage, origin>>
    /\ Outbound(i) /\ handleTabUpdateResumes(i)

\* Fault: the list read from the cache is stored in place of the fetched one.
CacheItemsStale(r) == [dpaList |-> r.dpaList, lastFetch |-> r.now]

\* Fault: the list is stored without its timestamp.
CacheItemsListOnly(r) == [dpaList |-> r.body]

\* Fault: the hosts of the tabs being classified are stored with the list.
CacheItemsWithSites(r) ==
    [dpaList |-> r.body, lastFetch |-> r.now,
     sites |-> {nav[j].tabDomainInfo.hostname :
                  j \in {k \in Runs : nav[k].pc = "await"}}]

\* background.js:256: the items getAndUpdateDpaList stores.
CacheItems(r) == [dpaList |-> r.body, lastFetch |-> r.now]

\* background.js:255-260: the cache write resolves and the list is returned.
WriteCache(i) ==
    /\ run[i].pc = "write"
    /\ storage' = StorageSet(storage, CacheItems(run[i]))
    /\ origin' = OriginSet(origin, CacheItems(run[i]), i)
    /\ run' = [run EXCEPT ![i] = Return(Logged(@, "write"), @.body)]
    /\ UNCHANGED <<clock, lastFetched>>
    /\ Outbound(i) /\ handleTabUpdateResumes(i)

\* background.js:344: tab.url.startsWith('http')
StartsWithHttp(urlString) == urlString.protocol \in {"http", "https"}

\* background.js:342-354: a tab event. Unless the tab has completed loading
\* an http(s) URL nothing happens; a URL that does not classify gets the
\* neutral icon at once; otherwise handleTabUpdate calls getAndUpdateDpaList
\* and suspends on it.
handleTabUpdate(i, tabId, changeInfo, tab) ==
    /\ run[i].pc = "idle"
    /\ \A j \in Runs : j < i => run[j].pc # "idle"
    /\ IF \/ changeInfo.status # "complete"
          \/ tab.url \in {NullUrl, EmptyUrl}
          \/ ~StartsWithHttp(tab.url)
       THEN UNCHANGED vars
       ELSE LET tabDomainInfo == getDomainInfo(tab.url)
                frame == [NoNav EXCEPT !.tabId = tabId, !.url = tab.url,
                                       !.tabDomainInfo = tabDomainInfo]
            IN  IF tabDomainInfo = NullObject
                THEN /\ run' = [run EXCEPT ![i] = [Idle EXCEPT !.pc = "unused"]]
                     /\ nav' = [nav EXCEPT ![i] =
                                  [frame EXCEPT
                                     !.pc = "done",
                                     !.shown = <<Call("neutral", tabId, FALSE)>>]]
                     /\ icon' = updateIcon("neutral", tabId, FALSE)
                     /\ UNCHANGED <<clock, storage, origin, lastFetched,
                                    inflight, query, published>>
                ELSE /\ getAndUpdateDpaList(i)
                     /\ nav' = [nav EXCEPT ![i] = [frame EXCEPT !.pc = "await"]]
                     /\ UNCHANGED <<icon, query, published>>

\* background.js:416-427 and 452-454: a message arrives. One that asks for
\* anything else is left unanswered; a URL that does not classify is answered
\* with an error at once; otherwise the handler suspends on the read of the
\* list slot.
onMessage(request) ==
    IF request.action # "getSiteInfoForUrl"
    THEN UNCHANGED vars
    ELSE /\ query.pc \in {"none", "done"}
         /\ LET domainInfo == getDomainInfo(request.url)
                frame == [NoQuery EXCEPT !.url = request.url,
                                         !.domainInfo = domainInfo]
            IN  query' =
                  IF domainInfo = NullObject
                  THEN [frame EXCEPT
                          !.pc = "done",
                          !.replies = <<[error |-> "Invalid URL provided."]>>]
                  ELSE [frame EXCEPT !.pc = "read"]
         /\ UNCHANGED <<clock, storage, run, origin, lastFetched, inflight,
                        nav, icon, published>>

\* Fault: without a list the message is left unanswered.
getSiteInfoForUrlSilent ==
    /\ query.pc = "read"
    /\ LET dpaList == storage.dpaList
           domainInfo == query.domainInfo
           siteInfo == siteInfoOfQuery(domainInfo, published[dpaList])
           response ==
               [siteInfo |-> siteInfo, domainInfo |-> domainInfo,
                overallStatus |-> determineOverallStatus(siteInfo)]
       IN  query' = [query EXCEPT
                       !.pc = "done",
                       !.replies = IF dpaList = None THEN @
                                   ELSE Append(@, response)]
    /\ UNCHANGED <<clock, storage, run, origin, lastFetched, inflight, nav,
                   icon, published>>

\* Fault: the handler stamps the list it answers from as fetched now.
getSiteInfoForUrlStamping ==
    /\ query.pc = "read"
    /\ LET dpaList == storage.dpaList
           domainInfo == query.domainInfo
           siteInfo == siteInfoOfQuery(domainInfo, published[dpaList])
           response ==
               IF dpaList = None
               THEN [error |-> "DPA data is not yet available."]
               ELSE [siteInfo |-> siteInfo, domainInfo |-> domainInfo,
                     overallStatus |-> determineOverallStatus(siteInfo)]
       IN  /\ query' = [query EXCEPT !.pc = "done",
                                     !.replies = Append(@, response)]
           /\ storage' = IF dpaList = None THEN storage
                         ELSE [storage EXCEPT !.lastFetch = clock]
    /\ UNCHANGED <<clock, run, origin, lastFetched, inflight, nav, icon,
                   published>>

\* background.js:427-449: the read resolves: an error without a list,
\* otherwise the entry found, the classification and the overall status.
getSiteInfoForUrl ==
    /\ query.pc = "read"
    /\ LET dpaList == storage.dpaList
           domainInfo == query.domainInfo
           siteInfo == siteInfoOfQuery(domainInfo, published[dpaList])
           response ==
               IF dpaList = None
               THEN [error |-> "DPA data is not yet available."]
               ELSE [siteInfo |-> siteInfo, domainInfo |-> domainInfo,
                     overallStatus |-> determineOverallStatus(siteInfo)]
       IN  query' = [query EXCEPT !.pc = "done",
                                  !.replies = Append(@, response)]
    /\ UNCHANGED <<clock, storage, run, origin, lastFetched, inflight, nav,
                   icon, published>>

Next ==
    \/ \E i \in Runs : onStartup(i)
    \/ \E i \in Runs : onInstalled(i)
    \/ \E i \in Runs : handleAlarm(i)
    \/ \E i \in Runs : ReadCache(i)
    \/ \E i \in Runs : ReadToken(i)
    \/ \E i \in Runs : AuthFlow(i)
    \/ \E i \in Runs : StoreToken(i)
    \/ \E i \in Runs : Response(i)
    \/ \E i \in Runs : WriteCache(i)

Spec == Init /\ [][Next]_vars

\* ------------------------------------------------------- tab and popup events
\* The runs that tab events may start, all of which may be suspended at once.
TabRuns == 1..MaxNavs

\* What an earlier session of the browser has left in storage, and how long
\* ago: nothing, a token, or a token and the list it fetched at StartMs.
Sessions ==
    {[storage |-> [supabase_token |-> None, dpaList |-> None,
                   lastFetch |-> None],
      origin |-> None, ago |-> 0],
     [storage |-> [supabase_token |-> TokenOf(Earlier, FALSE),
                   dpaList |-> None, lastFetch |-> None],
      origin |-> None, ago |-> 0]}
    \cup
    {[storage |-> [supabase_token |-> TokenOf(Earlier, FALSE),
                   dpaList |-> ListOf(Earlier), lastFetch |-> StartMs],
      origin |-> Earlier, ago |-> d] : d \in Elapsed}

\* The browser starts after the earlier session, if there was one.
TabInit ==
    /\ \E session \in Sessions :
         /\ clock = StartMs + session.ago
         /\ storage = session.storage
         /\ origin = [dpaList |-> session.origin, lastFetch |-> session.origin]
         /\ lastFetched = session.storage.dpaList
    /\ run = [i \in Runs |-> Idle]
    /\ inflight = [i \in Runs |-> NullObject]
    /\ nav = [i \in Runs |-> NoNav]
    /\ icon = [t \in Tabs |-> DefaultIcon]
    /\ query = NoQuery
    /\ published = Published

\* The URLs of the tabs: a page, an application page and another page of a
\* storefront, a string that starts with http and does not parse, a page of
\* the browser, no URL.
TabUrls == {ExamplePage, PlayApp, PlayStore, HttpNoHost, ChromePage, NullUrl}

\* The listeners of tab, startup, install and alarm events and the steps of
\* the runs they start, for the runs of R.
TabEvents(R) ==
    \/ \E i \in R, tabId \in Tabs, status \in {"complete", "loading"},
          url \in TabUrls :
            handleTabUpdate(i, tabId, [status |-> status], [url |-> url])
    \/ \E i \in R : onStartup(i)
    \/ \E i \in R : onInstalled(i)
    \/ \E i \in R : handleAlarm(i)
    \/ \E i \in R : ReadCache(i)
    \/ \E i \in R : ReadToken(i)
    \/ \E i \in R : AuthFlow(i)
    \/ \E i \in R : StoreToken(i)
    \/ \E i \in R : Response(i)
    \/ \E i \in R : WriteCache(i)

TabNext == TabEvents(TabRuns)

\* A browser with tabs after an earlier session.
TabSpec == TabInit /\ [][TabNext]_vars

\* The same browser when every storage, fetch and authentication call that
\* is outstanding eventually resolves or rejects. Triggers need not come.
Resolves(i) ==
    /\ WF_vars(ReadCache(i))
    /\ WF_vars(ReadToken(i))
    /\ WF_vars(AuthFlow(i))
    /\ WF_vars(StoreToken(i))
    /\ WF_vars(Response(i))
    /\ WF_vars(WriteCache(i))

\* The URLs the popup asks about: a page, an application page, no URL.
PopupUrls == {ExamplePage, PlayApp, NotAUrl}

\* The triggers that call getAndUpdateDpaList directly and the steps of the
\* runs they start, and the messages of the popup and the step of their
\* handler.
ListNext ==
    \/ \E action \in {"getSiteInfoForUrl", "other"}, url \in PopupUrls :
            onMessage([action |-> action, url |-> url])
    \/ getSiteInfoForUrl
    \/ \E i \in TabRuns : onStartup(i)
    \/ \E i \in TabRuns : onInstalled(i)
    \/ \E i \in TabRuns : handleAlarm(i)
    \/ \E i \in TabRuns : ReadCache(i)
    \/ \E i \in TabRuns : ReadToken(i)
    \/ \E i \in TabRuns : AuthFlow(i)
    \/ \E i \in TabRuns : StoreToken(i)
    \/ \E i \in TabRuns : Response(i)
    \/ \E i \in TabRuns : WriteCache(i)

ListLiveSpec ==
    TabInit /\ [][ListNext]_vars /\ \A i \in TabRuns : Resolves(i)

BrowserNext == TabEvents(Runs)

\* A browser with tabs from the installation on, with as many runs as Spec.
BrowserSpec == Init /\ [][BrowserNext]_vars

\* ------------------------------------------------- one event on a given list
\* The links of the entries: pages, application pages of four storefronts
\* (two of them with the same identifier), another storefront page, a
\* string that is no URL, no link at all.
Links ==
    {ExamplePage, ExampleHome, GoogleHome, PlayApp, PlayStore, ChromeApp,
     AppleAppNum, WorkspaceApp, NotAUrl, NullUrl}

\* The status strings of the wire format, one that the code does not know
\* and a missing one.
Statuses ==
    {"Approved", "Not Required", "Rejected", "Received", "Denied", "Pending",
     Undefined}

\* The statuses of the k-th entry of a list of links: a different overall
\* status at each of the first places.
StatusAt(k) ==
    CASE k = 1 -> <<"Approved", "Received">>
      [] k = 2 -> <<"Rejected", "Received">>
      [] k = 3 -> <<"Approved", "Denied">>
      [] OTHER -> <<"Pending", Undefined>>

\* The lists: every list of up to MaxLen links, and every pair of statuses
\* on one entry.
Lists ==
    {[k \in 1..n |-> Entry(links[k], StatusAt(k)[1], StatusAt(k)[2])] :
        n \in 0..MaxLen, links \in [1..MaxLen -> Links]}
    \cup {<<Entry(ExampleHome, tl, dpa)>> : tl \in Statuses, dpa \in Statuses}

\* The URLs of tabs and messages.
Urls ==
    {ExamplePage, ExampleHome, GoogleHome, LocalPage, PlayApp, PlayAppNoId,
     PlayStore, PlaySearch, AppleApp, AppleAppNum, AppleHome, ChromeApp,
     ChromeHome, WorkspaceApp, WorkspaceAbc, PlayAppEmptyId, AppleAppSlash,
     ChromeCategory, WorkspaceApps, FilePage, NotAUrl, HttpNoHost, ChromePage, NullUrl, EmptyUrl, NumberUrl}

\* The list an earlier session has just stored is any of Lists, or there is
\* no list yet.
ResolverInit ==
    /\ clock = StartMs
    /\ \/ /\ storage = [supabase_token |-> TokenOf(Earlier, FALSE),
                        dpaList |-> ListOf(Earlier), lastFetch |-> StartMs]
          /\ origin = [dpaList |-> Earlier, lastFetch |-> Earlier]
          /\ lastFetched = ListOf(Earlier)
          /\ \E list \in Lists :
                published = [Published EXCEPT ![Earlier] = list]
       \/ /\ storage = [supabase_token |-> None, dpaList |-> None,
                        lastFetch |-> None]
          /\ origin = [dpaList |-> None, lastFetch |-> None]
          /\ lastFetched = None
          /\ published = Published
    /\ run = [i \in Runs |-> Idle]
    /\ inflight = [i \in Runs |-> NullObject]
    /\ nav = [i \in Runs |-> NoNav]
    /\ icon = [t \in Tabs |-> DefaultIcon]
    /\ query = NoQuery

\* Nothing has happened yet.
Quiet == query.pc = "none" /\ \A i \in Runs : run[i].pc = "idle"

\* One event, a tab event on a stored list or a message, and the steps of
\* its handler.
ResolverNext ==
    \/ /\ Quiet
       /\ storage.dpaList # None
       /\ \E i \in TabRuns, tabId \in Tabs, status \in {"complete", "loading"},
             url \in Urls :
               handleTabUpdate(i, tabId, [status |-> status], [url |-> url])
    \/ \E i \in TabRuns : ReadCache(i)
    \/ /\ Quiet
       /\ \E action \in {"getSiteInfoForUrl", "other"}, url \in Urls :
               onMessage([action |-> action, url |-> url])
    \/ getSiteInfoForUrl

ResolverSpec == ResolverInit /\ [][ResolverNext]_vars

\* ------------------------------------------------------------------ claims
\* The 24 hours of the staleness policy, in milliseconds.
Day == 24 * 60 * 60 * 1000

\* Run i takes the step.
Steps(i) == run'[i] # run[i]
\* Run i returns in the step.
Returns(i) == run[i].pc \notin {"idle", "done"} /\ run'[i].pc = "done"
Last(log) == log[Len(log)]
\* The log ends with the events of tail.
EndsWith(log, tail) ==
    /\ Len(log) >= Len(tail)
    /\ SubSeq(log, Len(log) - Len(tail) + 1, Len(log)) = tail
\* What a run logs when it fails to synchronize: no token from a flow, a
\* failed fetch, or a 401 that no retry follows.
Failed(log) == log # <<>> /\ Last(log) \in {"null", "failed", "401"}

C1_Step(i) ==
    (run[i].pc = "read" /\ run'[i].pc # "read") =>
        LET cached == storage.dpaList # None /\ storage.lastFetch # None
            age == run[i].now - storage.lastFetch
        IN  /\ (cached /\ age < Day) =>
                 /\ run'[i].pc = "done"
                 /\ run'[i].ret = storage.dpaList
                 /\ run'[i].log = <<>>
                 /\ storage' = storage
            /\ (cached /\ age = Day) => run'[i].pc = "token"

\* C1: a run of getAndUpdateDpaList, whatever triggered it, that finds a list
\* and a timestamp less than 24h old in the cache returns that list at once:
\* no GET, no authentication and no storage write; at an age of exactly 24h
\* the cache is stale and the run goes on to fetch.
C1_FreshCacheServed == [][\A i \in Runs : C1_Step(i)]_vars

\* A run has returned the cached list without having done anything else.
C1_Witness ==
    \E i \in Runs :
        /\ run[i].pc = "done"
        /\ run[i].log = <<>>
        /\ run[i].ret # None
        /\ run[i].ret = storage.dpaList

\* C2: whenever a run returns while the cache holds a list, it returns a
\* list (not null), also when runs interleave.
C2_NullOnlyWithoutList ==
    [][\A i \in Runs :
         (Returns(i) /\ storage'.dpaList # None) => run'[i].ret # None]_vars

\* C3: a run issues at most two GETs and at most one interactive
\* authentication: a 401 to the first GET is followed by an interactive
\* authentication, a token from it by the one retry, no token by the return,
\* and whatever answers the retry nothing is tried again.
C3_AtMostOneRetry ==
    \A i \in Runs :
        LET log == run[i].log
            gets(k) == Count(SubSeq(log, 1, k), "get")
        IN  /\ Count(log, "get") <= 2
            /\ Count(log, "interactive") <= 1
            /\ \A k \in 1..Len(log) :
                 /\ (log[k] = "401" /\ gets(k) = 1) =>
                        (Len(log) > k /\ log[k + 1] = "interactive")
                 /\ (log[k] = "interactive" /\ Len(log) > k) =>
                        \/ /\ log[k + 1] = "token"
                           /\ Len(log) > k + 1
                           /\ log[k + 2] = "get"
                        \/ /\ log[k + 1] = "null"
                           /\ Len(log) = k + 1
                 /\ (log[k] = "get" /\ gets(k) = 2) =>
                        EndsWith(SubSeq(log, 1, k),
                                 <<"get", "401", "interactive", "token", "get">>)
                 /\ (log[k] \in {"401", "failed"} /\ gets(k) = 2) =>
                        (Len(log) = k /\ run[i].pc = "done")

\* A run whose retry was answered 401 as well has returned.
C3_Witness ==
    \E i \in Runs :
        /\ run[i].pc = "done"
        /\ EndsWith(run[i].log,
                    <<"get", "401", "interactive", "token", "get", "401">>)

C4_Step(i) ==
    (/\ run[i].pc = "write"
     /\ run'[i].pc = "done"
     /\ EndsWith(run[i].log,
                 <<"get", "401", "interactive", "token", "get", "ok">>)) =>
        /\ storage'.dpaList = ListOf(i)
        /\ storage'.lastFetch = run[i].now
        /\ run'[i].ret = ListOf(i)
        /\ Count(run'[i].log, "write") = 1

\* C4: a run whose first GET got 401, whose interactive authentication gave a
\* token and whose retry got a list writes the cache once, and the list it
\* writes and returns is the one the retry was answered with.
C4_RetryWritesOnce == [][\A i \in Runs : C4_Step(i)]_vars

\* Such a run has returned and its list is in the cache.
C4_Witness ==
    \E i \in Runs :
        /\ run[i].pc = "done"
        /\ EndsWith(run[i].log,
                    <<"get", "401", "interactive", "token", "get", "ok", "write">>)
        /\ run[i].ret = ListOf(i)
        /\ storage.dpaList = ListOf(i)

C5_Step(i) ==
    /\ (Steps(i) /\ run[i].pc # "write") =>
           /\ storage'.dpaList = storage.dpaList
           /\ storage'.lastFetch = storage.lastFetch
    /\ (run'[i].pc = "done" /\ Failed(run'[i].log)) =>
           Count(run'[i].log, "write") = 0

\* C5: a run that fails (no credential, transport error, non-2xx answer, 401
\* with no token from the interactive flow, 401 to the retry) never writes
\* the cache: the only step of a run that changes the list or the timestamp
\* slot is the write that ends a successful one.
C5_FailureKeepsCache == [][\A i \in Runs : C5_Step(i)]_vars

\* A run has failed and returned the list another run had cached, which is
\* still there.
C5_Witness ==
    \E i \in Runs :
        /\ run[i].pc = "done"
        /\ Failed(run[i].log)
        /\ run[i].ret # None
        /\ storage.dpaList = run[i].ret
        /\ origin.dpaList # i
        /\ origin.lastFetch # i

C6_Step(i) ==
    (run[i].pc = "auth1" /\ Steps(i)) =>
        /\ storage' = storage
        /\ run'[i].accessToken = None =>
               /\ run'[i].pc = "done"
               /\ run'[i].ret = run[i].dpaList
               /\ Count(run'[i].log, "get") = 0

\* C6: a run that found the cache stale or missing and the token slot empty,
\* and whose silent authentication gives no token, issues no GET and returns
\* the list it read from the cache, null if there was none.
C6_NoCredentialNoGet == [][\A i \in Runs : C6_Step(i)]_vars

\* A run without credential has returned null.
C6_Witness ==
    \E i \in Runs :
        /\ run[i].pc = "done"
        /\ run[i].log = <<"silent", "null">>
        /\ run[i].ret = None

\* C7: the list and the timestamp in the cache are always those of one write:
\* both absent or both present, written by the same run, the list being the
\* one that run fetched.
C7_CacheRecordAtomic ==
    /\ storage.dpaList = None <=> storage.lastFetch = None
    /\ origin.dpaList = origin.lastFetch
    /\ storage.dpaList # None => storage.dpaList = ListOf(origin.dpaList)

\* Two overlapping runs have both written the cache, the one started first
\* last.
C7_Witness ==
    \E i, j \in Runs :
        /\ i < j
        /\ Count(run[i].log, "write") = 1
        /\ Count(run[j].log, "write") = 1
        /\ origin.dpaList = i

\* C8: once no run is suspended, the cached list is the payload of the latest
\* successful GET.
C8_ConvergesToLatestFetch ==
    ((\A i \in Runs : run[i].pc \in {"idle", "done"}) /\ lastFetched # None)
        => storage.dpaList = lastFetched

\* The order of a run's authentications: a silent one only as its first
\* deed, an interactive one only right after a 401 to a GET of that run.
C9_Order(log) ==
    \A k \in 1..Len(log) :
        /\ log[k] = "silent" => k = 1
        /\ log[k] = "interactive" =>
               (k > 2 /\ log[k - 1] = "401" /\ log[k - 2] = "get")

C9_Step(i) ==
    /\ (run[i].pc = "token" /\ Steps(i)) =>
           IF storage.supabase_token = None
           THEN run'[i].pc = "auth1" /\ run'[i].log = <<"silent">>
           ELSE /\ run'[i].pc = "get1"
                /\ run'[i].log = <<"get">>
                /\ run'[i].supabase_token = storage.supabase_token
    /\ C9_Order(run'[i].log)

\* C9: a run attempts a silent authentication only when it read no token
\* from storage, and an interactive one only after a 401 to one of its own
\* GETs; a token read from storage goes into the first GET unchecked.
C9_CredentialOrder == [][\A i \in Runs : C9_Step(i)]_vars

\* A run has sent the stored token at once, got 401 and started an
\* interactive authentication.
C9_Witness ==
    \E i \in Runs :
        /\ Len(run[i].log) >= 3
        /\ SubSeq(run[i].log, 1, 3) = <<"get", "401", "interactive">>

C10_Step(i) ==
    /\ (run[i].pc \in {"auth1", "auth2"} /\ Steps(i)) =>
           /\ storage' = storage
           /\ \/ /\ run'[i].pc = (IF run[i].pc = "auth1" THEN "store1" ELSE "store2")
                 /\ run'[i].accessToken = TokenOf(i, run[i].pc = "auth2")
              \/ /\ run'[i].pc = "done"
                 /\ Last(run'[i].log) = "null"
                 /\ run'[i].ret = run[i].dpaList
    /\ (run[i].pc \in {"store1", "store2"} /\ Steps(i)) =>
           /\ storage' = [storage EXCEPT !.supabase_token = run[i].accessToken]
           /\ run'[i].supabase_token = run[i].accessToken
           /\ run'[i].pc = (IF run[i].pc = "store1" THEN "get1" ELSE "get2")

\* C10: authenticate stores the access token of the callback in the token
\* slot and returns it; a flow that is cancelled, throws or calls back without
\* a token makes it return null, the run going on to its normal return, with
\* storage as it was.
C10_Authenticate == [][\A i \in Runs : C10_Step(i)]_vars

\* The token of an interactive callback has replaced the stored one and is
\* the one the retry carries.
C10_Witness ==
    \E i \in Runs :
        /\ run[i].pc = "get2"
        /\ storage.supabase_token = TokenOf(i, TRUE)
        /\ run[i].supabase_token = TokenOf(i, TRUE)

\* The tokens the identity provider hands out, the earlier session's included.
Tokens == {TokenOf(j, b) : j \in ListNames, b \in BOOLEAN}

\* The one GET the extension sends, but for the token.
C11_Get(token) ==
    [url |-> "__API_URI_PLACEHOLDER__", method |-> "GET",
     headers |-> [apikey |-> "__API_KEY_PLACEHOLDER__",
                  UserAgent |-> "SB29-guard-chrome",
                  Authorization |-> <<"Bearer", token>>]]

\* The one authorization URL, launched silently or interactively.
C11_Authorize(interactive) ==
    [url |-> [href |-> <<"__API_HOST_PLACEHOLDER__", "/auth/v1/authorize">>,
              searchParams |->
                  [provider |-> "google",
                   redirect_to |-> "https://<extension-id>.chromiumapp.org/"]],
     interactive |-> interactive]

\* C11: whatever the tabs are on, a run that waits for the endpoint has sent
\* the one GET (fixed endpoint, API key, user agent) with a bearer token of
\* the identity provider, a run that waits for the identity provider has
\* launched the one authorization URL (fixed host, provider, redirect
\* target), and no other run has anything outstanding: no request carries
\* anything of a visited URL.
C11_ZeroDataCollection ==
    \A i \in Runs :
        /\ inflight[i] =
             (CASE run[i].pc \in {"get1", "get2"} ->
                     C11_Get(run[i].supabase_token)
                [] run[i].pc = "auth1" -> C11_Authorize(FALSE)
                [] run[i].pc = "auth2" -> C11_Authorize(TRUE)
                [] OTHER -> NullObject)
        /\ (run[i].pc \in {"get1", "get2"} => run[i].supabase_token \in Tokens)

\* The GET of a run that a tab on an application page has started is
\* outstanding.
C11_Witness ==
    \E i \in Runs :
        /\ nav[i].pc = "await"
        /\ nav[i].url = PlayApp
        /\ run[i].pc = "get1"
        /\ inflight[i] = C11_Get(run[i].supabase_token)

\* The times the clock has shown so far.
C12_Times == {StartMs + k * TickMs : k \in 0..((clock - StartMs) \div TickMs)}

\* C12: storage holds the three slots token, list and timestamp and nothing
\* else; the token is one the identity provider handed out, the list one the
\* endpoint answered with, the timestamp a time the clock has shown, each
\* absent or present; nothing that handleTabUpdate or the message handler
\* derives from a URL is in it.
C12_OnlyThreeSlots ==
    /\ DOMAIN storage = {"supabase_token", "dpaList", "lastFetch"}
    /\ storage.supabase_token \in {None} \cup Tokens
    /\ storage.dpaList \in {None} \cup {ListOf(j) : j \in ListNames}
    /\ storage.lastFetch \in {None} \cup C12_Times

\* A tab event has led to a fetch, the list is stored, the entry of the page
\* is found and its icon is shown.
C12_Witness ==
    \E i \in Runs :
        /\ nav[i].pc = "done"
        /\ nav[i].siteInfo # NullObject
        /\ origin.dpaList = i
        /\ storage.dpaList = ListOf(i)

\* C13: no run that a tab event has started has an interactive
\* authentication outstanding.
C13_NoInteractiveLogin ==
    \A i \in Runs :
        nav[i].pc = "await" => inflight[i] # C11_Authorize(TRUE)

\* What the handlers that have completed on a list have resolved: the
\* classification of the URL, the list, the entry found and the status
\* replied or shown.
Resolved ==
    {[info |-> query.domainInfo, list |-> published[storage.dpaList],
      result |-> query.replies[1].siteInfo,
      status |-> query.replies[1].overallStatus] :
        q \in {m \in {query} : /\ m.pc = "done"
                                /\ Len(m.replies) = 1
                                /\ "siteInfo" \in DOMAIN m.replies[1]}}
    \cup
    {[info |-> nav[i].tabDomainInfo, list |-> published[run[i].ret],
      result |-> nav[i].siteInfo, status |-> nav[i].shown[1].status] :
        i \in {i \in Runs : /\ nav[i].pc = "done"
                             /\ run[i].pc = "done"
                             /\ run[i].ret # None}}

\* The entry has the matching key of the classified URL: the identifier of
\* an application page, else the matching hostname of a page that is on no
\* storefront.
SameKey(info, entry) ==
    LET e == getDomainInfo(entry.resource_link)
    IN  /\ e # NullObject
        /\ \/ info.isInstalled /\ e.isInstalled /\ e.appID = info.appID
           \/ /\ ~info.isInstalled /\ ~info.isAppStore
              /\ ~e.isInstalled /\ e.hostname = info.hostname

\* The places of the list whose entries have the key of the URL.
Hits(info, list) == {k \in 1..Len(list) : SameKey(info, list[k])}

\* C14: the entry a handler finds is the one at the smallest index among the
\* entries that have the matching key of the URL (the same hostname, or the
\* same appID), and none if there is no such entry: a function of the URL
\* and the list.
C14_FirstMatchWins ==
    \A r \in Resolved :
        IF Hits(r.info, r.list) = {}
        THEN r.result = NullObject
        ELSE \E k \in Hits(r.info, r.list) :
                /\ r.result = r.list[k]
                /\ \A j \in Hits(r.info, r.list) : k <= j

\* The first of two entries with the hostname of the page has been found.
C14_Witness ==
    \E r \in Resolved :
        /\ Hits(r.info, r.list) = {1, 2}
        /\ r.info.hostname = Example
        /\ r.result = r.list[1]
        /\ r.list[2] # r.list[1]

\* C15: the entry found for an application page has a link that classifies
\* as an application page with the identical appID, whatever the
\* storefronts; the entry found for a page that is neither is one whose link
\* classifies as no application page with the same matching hostname; and
\* entries whose link does not classify are passed over: they never keep a
\* later entry from being found.
C15_TwoTier ==
    \A r \in Resolved :
        /\ r.result # NullObject =>
              LET e == getDomainInfo(r.result.resource_link)
              IN  /\ e # NullObject
                  /\ r.info.isInstalled =>
                        /\ e.isInstalled
                        /\ e.appID = r.info.appID
                        /\ e.appID # Null
                  /\ ~r.info.isInstalled =>
                        /\ ~r.info.isAppStore
                        /\ ~e.isInstalled
                        /\ e.appID = Null
                        /\ e.hostname = r.info.hostname
        /\ (\E k \in 1..Len(r.list) :
               /\ SameKey(r.info, r.list[k])
               /\ \A j \in 1..(k - 1) :
                     getDomainInfo(r.list[j].resource_link) = NullObject)
             => r.result # NullObject

\* An application page of one storefront has been resolved to the entry of
\* an application of another storefront with the same identifier, behind an
\* entry whose link is no URL.
C15_Witness ==
    \E r \in Resolved :
        /\ r.info.fullHostname = Workspace
        /\ r.info.isInstalled
        /\ Len(r.list) = 2
        /\ r.list[1].resource_link = NotAUrl
        /\ r.result = r.list[2]
        /\ r.result.resource_link = AppleAppNum

C17_StorefrontEntryFound ==
    \A r \in Resolved :
        LET generic(k) ==
                LET e == getDomainInfo(r.list[k].resource_link)
                IN  /\ e # NullObject
                    /\ e.isAppStore
                    /\ ~e.isInstalled
                    /\ e.hostname = r.info.fullHostname
        IN  (/\ r.info.isAppStore
             /\ ~r.info.isInstalled
             /\ \E k \in 1..Len(r.list) : generic(k))
            => \E k \in 1..Len(r.list) : generic(k) /\ r.result = r.list[k]

\* The reference of the status derivation, by cases that exclude each other.
C18_Reference(entry) ==
    IF entry = NullObject THEN "unlisted"
    ELSE LET tl == entry.current_tl_status
             dpa == entry.current_dpa_status
         IN  CASE tl = "Rejected" -> "denied"
               [] tl # "Rejected" /\ dpa = "Denied" -> "staff_only"
               [] /\ tl \in {"Approved", "Not Required"}
                  /\ dpa \in {"Received", "Not Required"} -> "approved"
               [] OTHER -> "pending"

\* C18: the status replied or shown for the entry found, or for none, is
\* one of the five and is the one of the reference, for every pair of
\* statuses, unknown and missing ones included.
C18_StatusPrecedence ==
    \A r \in Resolved :
        /\ r.status \in {"unlisted", "denied", "staff_only", "approved",
                          "pending"}
        /\ r.status = C18_Reference(r.result)

\* An entry that is rejected and whose agreement is denied has the status
\* denied.
C18_Witness ==
    \E r \in Resolved :
        /\ r.result # NullObject
        /\ r.result.current_tl_status = "Rejected"
        /\ r.result.current_dpa_status = "Denied"
        /\ r.status = "denied"

\* C19: a getSiteInfoForUrl message has no reply while its handler waits for
\* storage and exactly one once it is through: an error if the URL does not
\* classify or no list is stored, otherwise the classification, the first
\* entry with the key of the URL in the stored list (none if there is none)
\* and the status of that entry.
C19_ExactlyOneReply ==
    /\ query.pc \in {"none", "read"} => query.replies = <<>>
    /\ query.pc = "done" =>
          /\ Len(query.replies) = 1
          /\ LET reply == query.replies[1]
                 info == getDomainInfo(query.url)
                 list == published[storage.dpaList]
             IN  IF info = NullObject \/ storage.dpaList = None
                 THEN DOMAIN reply = {"error"}
                 ELSE /\ DOMAIN reply = {"siteInfo", "domainInfo", "overallStatus"}
                      /\ reply.domainInfo = info
                      /\ reply.siteInfo =
                            (IF Hits(info, list) = {} THEN NullObject
                             ELSE list[CHOOSE k \in Hits(info, list) :
                                         \A j \in Hits(info, list) : k <= j])
                      /\ reply.overallStatus = C18_Reference(reply.siteInfo)

\* A message has been answered with an entry and its status.
C19_Witness ==
    /\ query.pc = "done"
    /\ Len(query.replies) = 1
    /\ "siteInfo" \in DOMAIN query.replies[1]
    /\ query.replies[1].siteInfo # NullObject
    /\ query.replies[1].overallStatus = "approved"

\* The status of the first entry of the list with the key of the classified
\* URL, unlisted if there is none.
C20_StatusOn(info, list) ==
    IF Hits(info, list) = {} THEN "unlisted"
    ELSE C18_Reference(list[CHOOSE k \in Hits(info, list) :
                              \A j \in Hits(info, list) : k <= j])

C20_Step(i) ==
    (nav[i].pc # "done" /\ nav'[i].pc = "done") =>
        LET frame == nav'[i]
            info == getDomainInfo(frame.url)
            available == IF run'[i].ret # None THEN run'[i].ret
                         ELSE storage'.dpaList
            status == IF info = NullObject \/ available = None THEN "neutral"
                      ELSE C20_StatusOn(info, published[available])
        IN  /\ Len(frame.shown) = 1
            /\ frame.shown[1].tabId = frame.tabId
            /\ frame.shown[1].status = status
            /\ icon'[frame.tabId].path = IconPath(status)
            /\ \A t \in Tabs \ {frame.tabId} : icon'[t] = icon[t]

\* C20: a handleTabUpdate run for a completed http(s) navigation sets the
\* icon of its tab once, as it ends: the neutral one if the URL does not
\* classify or there is no list, neither from the run's getAndUpdateDpaList
\* (fresh, fetched or stale) nor in the cache; otherwise the one of the
\* status of the entry found in that list, or of unlisted.
C20_IndicatorAlwaysSet == [][\A i \in Runs : C20_Step(i)]_vars
\* C21: getDomainInfo returns null, and the handler goes on, for an input
\* that is empty, is no string or does not parse as a URL. For every other
\* input it returns a DomainInfo with the six fields, in which isInstalled
\* holds exactly when appID is not null, and which for a storefront host
\* carries the storefront's metadata whether or not an identifier was found.
C21_Parseable(u) ==
    u.typeof = "string" /\ u.protocol # "" /\ u.hostname # <<>>

C21_Storefronts ==
    (Apple :> "Apple App Store") @@ (ChromeStore :> "Chrome Web Store")
    @@ (Play :> "Google Play Store")
    @@ (Workspace :> "Google Workspace Marketplace")

C21_ClassifyTotal ==
    query.pc # "none" =>
        LET u == query.url
            info == query.domainInfo
        IN  IF ~C21_Parseable(u)
            THEN /\ info = NullObject
                 /\ query.pc = "done"
                 /\ query.replies = <<[error |-> "Invalid URL provided."]>>
            ELSE /\ info # NullObject
                 /\ DOMAIN info = {"fullHostname", "hostname", "isInstalled",
                                   "appID", "isAppStore", "appStoreName"}
                 /\ info.isInstalled <=> info.appID # Null
                 /\ info.fullHostname = u.hostname
                 /\ info.isAppStore <=> u.hostname \in DOMAIN C21_Storefronts
                 /\ info.appStoreName =
                       IF u.hostname \in DOMAIN C21_Storefronts
                       THEN C21_Storefronts[u.hostname] ELSE Null

\* A storefront page whose identifier candidate was discarded is classified,
\* and so is an application page whose identifier is the empty string.
C21_Witness ==
    /\ query.pc = "done"
    /\ query.url \in {WorkspaceAbc, PlayAppEmptyId}
    /\ query.domainInfo.isAppStore
    /\ query.url = WorkspaceAbc => query.domainInfo.appID = Null
    /\ query.url = PlayAppEmptyId => query.domainInfo.isInstalled
\* C22: the matching key of a classified URL is the full hostname on the four
\* storefront hosts, otherwise the last two labels of the hostname, or the
\* hostname as it is when it has fewer than two labels; so the message
\* handler finds, for a page outside the storefronts, the entry it finds for
\* every other such URL with the same last two labels.
C22_Key(h) ==
    IF h \in DOMAIN C21_Storefronts \/ Len(h) < 2 THEN h
    ELSE <<h[Len(h) - 1], h[Len(h)]>>

C22_Plain(u) == C21_Parseable(u) /\ u.hostname \notin DOMAIN C21_Storefronts

C22_MatchingKey ==
    /\ (query.pc # "none" /\ query.domainInfo # NullObject) =>
            query.domainInfo.hostname = C22_Key(query.url.hostname)
    /\ \A i \in Runs :
            (nav[i].pc # "none" /\ nav[i].tabDomainInfo # NullObject) =>
                nav[i].tabDomainInfo.hostname = C22_Key(nav[i].url.hostname)
    /\ (query.pc = "done" /\ storage.dpaList # None /\ C22_Plain(query.url)) =>
            \A u \in Urls :
                (C22_Plain(u) /\ C22_Key(u.hostname) = C22_Key(query.url.hostname))
                => query.replies[1].siteInfo =
                     siteInfoOfQuery(getDomainInfo(u), published[storage.dpaList])

\* The page of www.example.com is answered with the entry of example.com.
C22_Witness ==
    /\ query.pc = "done"
    /\ query.url = ExamplePage
    /\ storage.dpaList # None
    /\ query.replies[1].siteInfo # NullObject
    /\ query.replies[1].siteInfo.resource_link = ExampleHome
\* The identifier of the per-host rules, for a URL whose path has the
\* segments p (a leading slash, then the segments joined by slashes): the
\* Chrome Web Store rule looks at the segment in place `detail`.
C23_Extract(u, detail) ==
    LET p == u.pathname
        last == p[Len(p)]
    IN  CASE u.hostname = Apple ->
               IF \E k \in 1..(Len(p) - 1) : p[k] = "app" THEN last ELSE Null
          [] u.hostname = ChromeStore ->
               IF Len(p) >= detail /\ p[detail] = "detail" THEN last ELSE Null
          [] u.hostname = Play ->
               IF /\ Len(p) >= 3
                  /\ <<p[1], p[2]>> = <<"store", "apps">>
                  /\ p[3] \in DetailsPrefixed
               THEN u.id ELSE Null
          [] u.hostname = Workspace ->
               IF /\ Len(p) >= 3
                  /\ <<p[1], p[2]>> = <<"marketplace", "app">>
                  /\ last \in Numeric
               THEN last ELSE Null
          [] OTHER -> Null

\* C23 as stated: the identifier of every classified URL is the one of the
\* per-host rules, the Chrome Web Store's being the last path segment only
\* if the second path segment is detail.
C23_SecondSegmentIsDetail ==
    (query.pc # "none" /\ query.domainInfo # NullObject) =>
        query.domainInfo.appID = C23_Extract(query.url, 2)

\* C23, amended: the identifier of every classified URL is the one of the
\* per-host rules, the Chrome Web Store's being the last path segment only
\* if the first path segment (the second element of the path split at its
\* slashes) is detail; no host outside the four storefronts gets one.
C23_ExtractionMatchesReference ==
    /\ (query.pc # "none" /\ query.domainInfo # NullObject) =>
            query.domainInfo.appID = C23_Extract(query.url, 1)
    /\ \A i \in Runs :
            (nav[i].pc # "none" /\ nav[i].tabDomainInfo # NullObject) =>
                nav[i].tabDomainInfo.appID = C23_Extract(nav[i].url, 1)

\* The page /detail/foo/com.foo of the Chrome Web Store has been classified
\* as the application com.foo.
C23_Witness ==
    /\ query.pc # "none"
    /\ query.url = ChromeApp
    /\ query.domainInfo.appID = "com.foo"
\* C24: every run of getAndUpdateDpaList that has started returns, provided
\* every call it waits for resolves or rejects; a cancelled interactive
\* prompt included.
C24_Terminates ==
    \A i \in Runs : (run[i].pc \notin {"idle", "unused"}) ~> (run[i].pc = "done")

\* A run has returned after its interactive authentication gave no token.
C24_Witness ==
    \E i \in Runs :
        /\ run[i].pc = "done"
        /\ EndsWith(run[i].log, <<"401", "interactive", "null">>)
\* C25: a step of the getSiteInfoForUrl handler leaves the three storage
\* slots, the runs of getAndUpdateDpaList and the outstanding requests as
\* they are, and it answers from the stored list whatever its age.
C25_Step ==
    (query' # query) =>
        /\ storage' = storage
        /\ run' = run
        /\ inflight' = inflight
        /\ (query.pc = "read" /\ storage.dpaList # None) =>
               /\ query'.pc = "done"
               /\ DOMAIN Last(query'.replies) =
                     {"siteInfo", "domainInfo", "overallStatus"}
               /\ Last(query'.replies).siteInfo =
                     siteInfoOfTab(query.domainInfo, published[storage.dpaList])

C25_QueryOnlyReads == [][C25_Step]_vars

\* A query has been answered with an entry of a list older than the cache
\* duration, and no run has started and nothing has been requested.
C25_Witness ==
    /\ query.pc = "done"
    /\ storage.dpaList # None
    /\ clock - storage.lastFetch >= CACHE_DURATION_MS
    /\ "siteInfo" \in DOMAIN Last(query.replies)
    /\ Last(query.replies).siteInfo # NullObject
    /\ \A i \in Runs : run[i].pc = "idle" /\ inflight[i] = NullObject
\* C26: the entry and the status the message handler replies with are those
\* the search and the status rule of handleTabUpdate (lines 361-384) give
\* for the same classification and list, and the entry and the status
\* handleTabUpdate shows are those the search and the status rule of the
\* message handler (lines 433-447) give; no entry is unlisted in both.
C26_SameMatching ==
    /\ (/\ query.pc = "done"
        /\ "siteInfo" \in DOMAIN Last(query.replies)) =>
            LET reply == Last(query.replies)
                siteInfo == siteInfoOfTab(query.domainInfo,
                                          published[storage.dpaList])
            IN  /\ reply.siteInfo = siteInfo
                /\ reply.overallStatus =
                      IF siteInfo # NullObject
                      THEN determineOverallStatus(siteInfo) ELSE "unlisted"
    /\ \A i \in Runs :
            (nav[i].pc = "done" /\ run[i].pc = "done" /\ run[i].ret # None) =>
                LET siteInfo == siteInfoOfQuery(nav[i].tabDomainInfo,
                                                published[run[i].ret])
                IN  /\ nav[i].siteInfo = siteInfo
                    /\ Last(nav[i].shown).status =
                          determineOverallStatus(siteInfo)

\* A tab on an application page shows the status of the second entry of
\* the list, which is the one the message handler would reply with.
C26_Witness ==
    \E i \in Runs :
        /\ nav[i].pc = "done"
        /\ run[i].pc = "done"
        /\ run[i].ret # None
        /\ nav[i].tabDomainInfo.isInstalled
        /\ Len(published[run[i].ret]) >= 2
        /\ nav[i].siteInfo = published[run[i].ret][2]
        /\ Last(nav[i].shown).status = "denied"
\* The runs of handleTabUpdate for tab t, in the order of the navigations:
\* a later navigation starts the run with the larger index.
C27_RunsOf(t) == {i \in Runs : nav[i].pc # "none" /\ nav[i].tabId = t}

\* C27: once every handleTabUpdate run of a tab has finished, the icon of the
\* tab is the one that the run of the tab's latest navigation has set.
C27_LatestNavigationWins ==
    \A t \in Tabs :
        (/\ C27_RunsOf(t) # {}
         /\ \A i \in C27_RunsOf(t) : nav[i].pc = "done") =>
            LET latest == CHOOSE i \in C27_RunsOf(t) :
                              \A j \in C27_RunsOf(t) : j <= i
                call == Last(nav[latest].shown)
            IN  icon[t] = [path |-> IconPath(call.status),
                           badge |-> IF call.isInstalled THEN BadgeText ELSE ""]
\* C28: the timestamp in the cache never decreases: a cache write stores one
\* that is greater than or equal to the one it replaces. (The claim adds that
\* the timestamp is not earlier than the moment the GET was issued; the two
\* follow from each other when every run stamps the time of its GET.)
C28_TimestampNeverDecreases ==
    [][(storage.lastFetch # None /\ storage'.lastFetch # None) =>
           storage'.lastFetch >= storage.lastFetch]_vars
\* C29: a 401 answer and an interactive authentication that gives no token
\* leave the three storage slots as they are (the rejected token is not
\* removed, the timestamp is not advanced), and nothing else remembers the
\* failure: a run that finds no fresh cache goes on to the token read
\* whatever failed before, sends the token that is stored, and answers a 401
\* with an interactive authentication.
C29_Step(i) ==
    /\ (run[i].pc = "get1" /\ run'[i].pc = "auth2") =>
           /\ storage' = storage
           /\ inflight'[i] = C11_Authorize(TRUE)
    /\ (run[i].pc = "auth2" /\ run'[i].pc = "done") =>
           /\ storage' = storage
           /\ run'[i].ret = run[i].dpaList
    /\ (/\ run[i].pc = "read" /\ Steps(i)
        /\ \/ storage.dpaList = None
           \/ storage.lastFetch = None
           \/ run[i].now - storage.lastFetch >= CACHE_DURATION_MS) =>
           run'[i].pc = "token"
    /\ (run[i].pc = "token" /\ Steps(i) /\ storage.supabase_token # None) =>
           /\ run'[i].pc = "get1"
           /\ inflight'[i] = C11_Get(storage.supabase_token)

C29_NoInvalidationNoBackoff == [][\A i \in Runs : C29_Step(i)]_vars

\* The token of a run whose GET got a 401 and whose interactive
\* authentication gave no token is still stored, and the next run has sent
\* it, got a 401 and launched another interactive authentication.
C29_Witness ==
    \E i, j \in Runs :
        /\ i # j
        /\ run[i].pc = "done"
        /\ run[i].log = <<"silent", "token", "get", "401", "interactive", "null">>
        /\ storage.supabase_token = TokenOf(i, FALSE)
        /\ storage.lastFetch = None
        /\ run[j].pc = "auth2"
        /\ run[j].log = <<"get", "401", "interactive">>
        /\ inflight[j] = C11_Authorize(TRUE)
====
